---- MODULE Spec2Model ----
(***************************************************************************)
(* HexMem spaced-repetition review engine (src/review.py).                 *)
(*                                                                         *)
(* Fixed-point units used for the program's floats:                        *)
(*   time               centihours  (1 hour  = 100)                        *)
(*   memory_strength    thousandths (1.0     = 1000)                       *)
(*   importance         thousandths (0.3     = 300)                        *)
(*   retention          1/10000     (1.0     = 10000)                      *)
(* Each review_item / process_decay run is one command-line invocation     *)
(* with its own SQLite connection; statements of different invocations     *)
(* interleave, and SQLite admits one write transaction at a time.          *)
(***************************************************************************)
EXTENDS Integers, Sequences, FiniteSets, Bags, TLC

\* ------------------------------------------------------------ bounds
MaxReviews == 2
MaxTicks == 1
MaxSweeps == 1
MaxRepetition == 10
MaxNegative == 12
MaxHourSteps == 16
MaxQueue == 10
MaxFacts == 4

\* ------------------------------------------------------------ units
Hour == 100
StrengthUnit == 1000
RetentionUnit == 10000
NULL == -1

\* ------------------------------------------------------------ arithmetic
Abs(a) == IF a < 0 THEN -a ELSE a

\* a / b rounded to the nearest unit, any signs, b # 0.
RoundDiv(a, b) ==
    LET n == Abs(a)
        d == Abs(b)
        q == (2 * n + d) \div (2 * d)
    IN  IF (a < 0) = (b < 0) THEN q ELSE -q

Min(a, b) == IF a < b THEN a ELSE b
Max(a, b) == IF a > b THEN a ELSE b

\* ------------------------------------------------------------ math.exp
\* e^(-y/1000) for 0 <= y < 1000 at scale 10^6: the alternating series
\* 1 - y + y^2/2! - ... with ExpTerms terms.
ExpTerms == 10

RECURSIVE ExpSeries(_, _, _, _)
ExpSeries(y, k, term, acc) ==
    IF k > ExpTerms \/ term = 0 THEN acc
    ELSE LET next == (term * y) \div (1000 * k)
         IN  ExpSeries(y, k + 1, next,
                       IF k % 2 = 1 THEN acc - next ELSE acc + next)

\* r * e^(-n) for n >= 0 and r * e^n for n < 0, at the scale of r.
RECURSIVE ExpShift(_, _)
ExpShift(r, n) ==
    IF n = 0 \/ r = 0 THEN r
    ELSE IF n > 0 THEN ExpShift((r * 3679 + 5000) \div 10000, n - 1)
    ELSE ExpShift((r * 27183 + 5000) \div 10000, n + 1)

\* The exponents (in thousandths, as decay: x means e^(-x/1000)) the
\* fixed-point exponential represents; below MinExponent the value would
\* exceed the integer range of the model checker.
MinExponent == -3 * 1000
MaxExponent == 12 * 1000

\* math.exp(-x/1000) at scale RetentionUnit.
Exp(x) ==
    IF x >= MaxExponent THEN 0
    ELSE LET xx == Max(x, MinExponent)
             n  == IF xx >= 0 THEN xx \div 1000 ELSE -((-xx + 999) \div 1000)
             y  == xx - 1000 * n
             f  == (ExpSeries(y, 1, 1000000, 1000000) + 50) \div 100
         IN  ExpShift(f, n)

\* -hours_since_review / (memory_strength * 24), as the decay exponent in
\* thousandths; memory_strength # 0.
DecayExponent(hours_since_review, memory_strength) ==
    RoundDiv(hours_since_review * 10 * 1000, 24 * memory_strength)

\* math.exp(x) is 0.0 for every x below about -745.13 (the smallest
\* subnormal double is e^-744.44): whole hours against 745.14 * 24 * S.
FloatUnderflows(hours_since_review, memory_strength) ==
    /\ memory_strength > 0
    /\ (hours_since_review \div Hour) * 1000 >= 17884 * memory_strength

\* (mutant) the sign of the exponent is lost.
calculate_retention_grows(hours_since_review, memory_strength) ==
    Exp(0 - DecayExponent(hours_since_review, memory_strength))

\* calculate_retention: R = e^(-t/S), S = memory_strength * 24.
calculate_retention(hours_since_review, memory_strength) ==
    IF FloatUnderflows(hours_since_review, memory_strength) THEN 0
    ELSE Exp(DecayExponent(hours_since_review, memory_strength))

\* ------------------------------------------------------------ SM-2 ladder
\* INTERVALS, in centihours.
INTERVALS == <<33, 100, 2400, 7200, 16800, 33600, 72000, 216000, 432000, 876000>>

\* INTERVALS[i] as Python evaluates it: a negative index counts from the
\* end of the list, and an index outside -len..len-1 raises IndexError.
IndexRaises(list, i) == i >= Len(list) \/ i < -Len(list)

ListItem(list, i) ==
    IF IndexRaises(list, i) THEN NULL
    ELSE IF i >= 0 THEN list[i + 1]
    ELSE list[Len(list) + i + 1]

\* (mutant) a failed review keeps its rung.
get_next_interval_keeps(repetition_count, quality) ==
    LET next_rep == Min(repetition_count + 1, Len(INTERVALS) - 1)
        base_interval == ListItem(INTERVALS,
                             IF quality < 3 THEN next_rep - 1 ELSE next_rep)
    IN  IF quality = 5 THEN (base_interval * 13) \div 10
        ELSE IF quality = 3 THEN (base_interval * 8) \div 10
        ELSE base_interval

\* (mutant) a successful review stays on the rung of repetition_count.
get_next_interval_stays(repetition_count, quality) ==
    IF quality < 3 THEN INTERVALS[1]
    ELSE LET next_rep == Min(repetition_count, Len(INTERVALS) - 1)
             base_interval == ListItem(INTERVALS, next_rep)
         IN  IF quality = 5 THEN (base_interval * 13) \div 10
             ELSE IF quality = 3 THEN (base_interval * 8) \div 10
             ELSE base_interval

\* The value get_next_interval returns, when it returns.
get_next_interval(repetition_count, quality) ==
    IF quality < 3 THEN INTERVALS[1]
    ELSE LET next_rep == Min(repetition_count + 1, Len(INTERVALS) - 1)
             base_interval == ListItem(INTERVALS, next_rep)
         IN  IF quality = 5 THEN (base_interval * 13) \div 10
             ELSE IF quality = 3 THEN (base_interval * 8) \div 10
             ELSE base_interval

\* Whether get_next_interval raises instead of returning: the function has
\* no check of its own, only the list access can raise.
get_next_interval_raises(repetition_count, quality) ==
    quality >= 3 /\ IndexRaises(INTERVALS,
                                Min(repetition_count + 1, Len(INTERVALS) - 1))

\* ------------------------------------------------------------ store
\* The effective item table of a review: review_item queries events for
\* 'events' and lessons for every other source_table.
\* The item collections review_item has a query for.
ItemTables == {"events", "lessons"}

ItemTable(source_table) == IF source_table = "events" THEN "events" ELSE "lessons"

SourceTables == {"events", "lessons"}
\* --review TABLE:ID takes any table name; facts is the third collection
\* of the store.
TableNames == SourceTables \cup {"facts"}
SourceIds == 1..2
\* One failed and one successful grade of --quality (0..5).
Qualities == {1, 4}
\* parser.add_argument('--quality', type=int, choices=[0,1,2,3,4,5])
QualityChoices == 0..5
\* What a caller may type after --quality: the grades above, one integer
\* below and one above the choices.
QualityArgs == Qualities \cup {-1, 6}

NowInit == 60 * Hour
Tick == 48 * Hour

\* A freshly ingested row: the defaults of the ingestion collaborator.
\* review_writes counts the committed review UPDATEs of the row (history).
NewItem(created, importance) ==
    [ memory_strength     |-> StrengthUnit,
      repetition_count    |-> 0,
      last_reviewed_at    |-> NULL,
      created_at          |-> created,
      next_review_at      |-> NULL,
      retention_estimate  |-> RetentionUnit,
      importance          |-> importance,
      consolidation_state |-> "active",
      review_writes       |-> 0 ]

\* events 1: old and unimportant; events 2: important, dated a day ahead
\* of the clock; lessons 1: old and unimportant.
InitItems ==
    (<<"events", 1>> :> NewItem(0, 200)) @@
    (<<"events", 2>> :> NewItem(NowInit + 24 * Hour, 500)) @@
    (<<"lessons", 1>> :> NewItem(0, 200))

\* Two independent command-line callers; each runs one review at a time.
Callers == {1, 2}

VARIABLES
    now,     \* the wall clock (UTC), centihours
    items,   \* committed rows of events and lessons, by <<table, id>>
    log,     \* committed rows of review_log, a bag of rows
    txn,     \* the open write transaction, if any, and its pending writes
    rv,      \* the review_item invocation of each caller
    sw,      \* the process_decay invocation
    ended,   \* how many review_item invocations ended in each way (history)
    call,    \* a direct call of get_next_interval: arguments and result
    ret,     \* a direct call of calculate_retention: arguments and result
    cli,     \* a run of main: the command line and the exit status
    queue,   \* embedding_queue: the status of each row, by id
    pq,      \* the process_queue invocation
    facts,   \* the facts table: rows by id
    co       \* the last commit_observation call

\* The review store and its invocations; the state of the other programs.
store == <<now, items, log, txn, rv, sw, ended>>
aux == <<call, ret, cli, queue, pq, facts, co>>

vars == <<now, items, log, txn, rv, sw, ended, call, ret, cli, queue, pq, facts, co>>

NoTxn == [owner |-> "none", caller |-> 0, rows |-> <<>>, log |-> EmptyBag]

IdleCaller ==
    [ pc |-> "idle",
      source_table |-> "events", source_id |-> 0, quality |-> 0, now |-> 0,
      strength |-> 0, rep_count |-> 0, hours_since |-> 0,
      current_retention |-> 0,
      new_strength |-> 0, new_rep_count |-> 0, next_interval_hours |-> 0 ]

\* ok: committed; notfound: no such row; error: raised before any write;
\* rolledback: raised with the transaction open; invalid: argparse refused
\* the command line (exit status 2) before the store was opened.
Outcomes == {"ok", "notfound", "error", "rolledback", "invalid"}

\* No direct call is under way.
NoCall ==
    [ done |-> FALSE, repetition_count |-> 0, quality |-> 0,
      raised |-> FALSE, result |-> 0 ]

\* No direct call of calculate_retention is under way.
NoRetention ==
    [ done |-> FALSE, hours_since_review |-> 0, memory_strength |-> StrengthUnit,
      result |-> 0 ]

\* No run of main is under way.
NoRun ==
    [ done |-> FALSE, command |-> "help", review |-> "table:id", quality |-> 4,
      db |-> "present", status |-> 0 ]

\* embedding_queue as ingestion left it: rows 1..MaxQueue are pending, in
\* the order of created_at; one earlier row is done and one has failed.
QueueIds == 1..(MaxQueue + 2)
InitQueue ==
    [id \in QueueIds |->
        IF id <= MaxQueue THEN "pending"
        ELSE IF id = MaxQueue + 1 THEN "done" ELSE "failed"]

\* No process_queue is under way.
IdleQueueRun ==
    [ pc |-> "idle", limit |-> 0, pending |-> <<>>, i |-> 0, processed |-> 0,
      saved |-> <<>>, result |-> 0 ]

\* facts holds one retracted row of the first key.
InitFacts ==
    << [ key |-> "k1", valid_until |-> NULL, superseded_by |-> NULL,
         status |-> "retracted" ] >>

\* No commit_observation has been called.
NoObservation ==
    [ action |-> "none", dry_run |-> FALSE, key |-> "k1", conflict |-> NULL,
      new_id |-> NULL ]

IdleSweep ==
    [ pc |-> "idle", outcome |-> "none", apply |-> FALSE, n |-> 0,
      candidates |-> {}, listed |-> <<>>, mutated |-> {}, t |-> 0 ]

\* The review store after construction, nothing under way.
StoreInit ==
    /\ now = NowInit
    /\ items = InitItems
    /\ log = EmptyBag
    /\ txn = NoTxn
    /\ rv = [c \in Callers |-> IdleCaller]
    /\ sw = IdleSweep
    /\ ended = [o \in Outcomes |-> 0]

Init ==
    /\ StoreInit
    /\ call = NoCall
    /\ ret = NoRetention
    /\ cli = NoRun
    /\ queue = InitQueue
    /\ pq = IdleQueueRun
    /\ facts = InitFacts
    /\ co = NoObservation

\* The rows a connection without pending writes reads: the committed ones.
\* COMMIT makes the pending rows and log entries visible together.
Committed(rows, pending) ==
    [k \in DOMAIN rows |->
        IF k \in DOMAIN pending THEN pending[k] ELSE rows[k]]

\* ------------------------------------------------------------ review_item
\* last_reviewed = last_reviewed or created
ReferenceTime(row) ==
    IF row.last_reviewed_at # NULL THEN row.last_reviewed_at ELSE row.created_at

\* The reviews whose arithmetic the fixed-point numbers represent.
Representable(hours_since, strength) ==
    /\ Abs(strength) <= 15 * StrengthUnit
    /\ DecayExponent(hours_since, strength) >= MinExponent

\* memory strength after a review of the given quality.
NewStrength(strength, quality, current_retention) ==
    IF quality >= 3
    THEN LET retention_bonus == RetentionUnit
                                  + RoundDiv(RetentionUnit - current_retention, 2)
             strength_multiplier == 1100 + (quality - 3) * 100
         IN  Min(10 * StrengthUnit,
                 RoundDiv(RoundDiv(strength * strength_multiplier, 1000)
                             * retention_bonus, RetentionUnit))
    ELSE Max(StrengthUnit \div 2, RoundDiv(strength * 7, 10))

\* (mutant) the count is not advanced before the interval is looked up.
NewRepCountSame(rep_count, quality) ==
    IF quality >= 3 THEN rep_count ELSE 0

NewRepCount(rep_count, quality) ==
    IF quality >= 3 THEN rep_count + 1 ELSE 0

\* Lines 137-162: everything review_item computes from the row it read.
Computed(source_table, source_id, quality, row, t) ==
    LET hours_since == t - ReferenceTime(row)
        current_retention == calculate_retention(hours_since, row.memory_strength)
        new_rep_count == NewRepCount(row.repetition_count, quality)
    IN  [ pc |-> "read",
          source_table |-> source_table, source_id |-> source_id,
          quality |-> quality, now |-> t,
          strength |-> row.memory_strength, rep_count |-> row.repetition_count,
          hours_since |-> hours_since,
          current_retention |-> current_retention,
          new_strength |-> NewStrength(row.memory_strength, quality, current_retention),
          new_rep_count |-> new_rep_count,
          next_interval_hours |-> get_next_interval(new_rep_count, quality) ]

\* The invocations begun so far.
Started ==
    ended["ok"] + ended["notfound"] + ended["error"] + ended["rolledback"]
        + ended["invalid"]
        + Cardinality({c \in Callers : rv[c].pc # "idle"})

\* The invocation has ended one more time with the given outcome.
Tally(outcome) == [ended EXCEPT ![outcome] = @ + 1]

\* (mutant) the not-found path leaves a row in review_log.
ReportNotFoundLogged(source_table, source_id, quality) ==
    /\ ended' = Tally("notfound")
    /\ log' = log (+) SetToBag({[ source_table |-> source_table,
                                   source_id |-> source_id,
                                   retention_before |-> 0, quality |-> quality,
                                   time_since_last_review_hours |-> 0 ]})
    /\ UNCHANGED rv

\* "if not row: print(Item not found ...); return", then conn.close().
ReportNotFound(source_table, source_id, quality) ==
    /\ ended' = Tally("notfound")
    /\ UNCHANGED <<rv, log>>

\* (mutant) --quality takes any integer.
QualityAcceptedAny(quality) == TRUE

\* argparse checks --quality against its choices; parser.error exits
\* before get_db().
QualityAccepted(quality) == quality \in QualityChoices

\* main and review_item up to the UPDATE: the argument check, the SELECT
\* and the computation, outside any transaction.  The callers are
\* interchangeable: a new invocation takes the first free one.
ReviewRead(c, source_table, source_id, quality) ==
    /\ rv[c].pc = "idle"
    /\ \A d \in Callers : d < c => rv[d].pc # "idle"
    /\ Started < MaxReviews
    /\ LET key == <<ItemTable(source_table), source_id>>
       IN  IF ~QualityAccepted(quality)
           THEN /\ ended' = Tally("invalid")
                /\ UNCHANGED <<rv, log>>
           ELSE IF key \notin DOMAIN items
           THEN ReportNotFound(source_table, source_id, quality)
           ELSE IF items[key].memory_strength = 0
           THEN /\ ended' = Tally("error")
                /\ UNCHANGED <<rv, log>>
           ELSE /\ Representable(now - ReferenceTime(items[key]),
                                 items[key].memory_strength)
                /\ rv' = [rv EXCEPT ![c] =
                             Computed(source_table, source_id, quality,
                                      items[key], now)]
                /\ UNCHANGED <<ended, log>>
    /\ UNCHANGED <<now, items, txn, sw, aux>>

ReviewKey(r) == <<ItemTable(r.source_table), r.source_id>>

\* (mutant) the UPDATE also resets the consolidation state.
ReviewedRowReactivates(row, r) ==
    [row EXCEPT !.memory_strength = r.new_strength,
                !.repetition_count = r.new_rep_count,
                !.last_reviewed_at = r.now,
                !.next_review_at = r.now + r.next_interval_hours,
                !.retention_estimate = RetentionUnit,
                !.consolidation_state = "active",
                !.review_writes = @ + 1]

\* (mutant) the UPDATE schedules the next review at the review time and
\* leaves retention_estimate alone.
ReviewedRowUnscheduled(row, r) ==
    [row EXCEPT !.memory_strength = r.new_strength,
                !.repetition_count = r.new_rep_count,
                !.last_reviewed_at = r.now,
                !.next_review_at = r.now,
                !.review_writes = @ + 1]

\* The row the UPDATE statement writes.
ReviewedRow(row, r) ==
    [row EXCEPT !.memory_strength = r.new_strength,
                !.repetition_count = r.new_rep_count,
                !.last_reviewed_at = r.now,
                !.next_review_at = r.now + r.next_interval_hours,
                !.retention_estimate = RetentionUnit,
                !.review_writes = @ + 1]

\* The row the INSERT INTO review_log statement writes.
LogEntry(r) ==
    [ source_table |-> r.source_table, source_id |-> r.source_id,
      retention_before |-> r.current_retention, quality |-> r.quality,
      time_since_last_review_hours |-> r.hours_since ]

\* (mutant) the connection is in autocommit mode: the UPDATE is visible
\* at once and nothing is left to roll back.
ExecReviewUpdateAutocommit(c) ==
    /\ items' = [items EXCEPT ![ReviewKey(rv[c])] = ReviewedRow(@, rv[c])]
    /\ txn' = [owner |-> "review", caller |-> c, rows |-> <<>>, log |-> EmptyBag]
    /\ UNCHANGED log

\* (mutant) the UPDATE leaves forgotten rows alone.
ExecReviewUpdateSkipsForgotten(c) ==
    /\ txn' = [owner |-> "review", caller |-> c,
               rows |-> (ReviewKey(rv[c]) :>
                            IF items[ReviewKey(rv[c])].consolidation_state = "forgotten"
                            THEN items[ReviewKey(rv[c])]
                            ELSE ReviewedRow(items[ReviewKey(rv[c])], rv[c])),
               log |-> EmptyBag]
    /\ UNCHANGED <<items, log>>

\* conn.execute(UPDATE ...): sqlite3 opens the transaction implicitly and
\* the row stays pending until COMMIT.
ExecReviewUpdate(c) ==
    /\ txn' = [owner |-> "review", caller |-> c,
               rows |-> (ReviewKey(rv[c]) :>
                            ReviewedRow(items[ReviewKey(rv[c])], rv[c])),
               log |-> EmptyBag]
    /\ UNCHANGED <<items, log>>

ReviewUpdate(c) ==
    /\ rv[c].pc = "read"
    /\ txn.owner = "none"
    /\ ExecReviewUpdate(c)
    /\ rv' = [rv EXCEPT ![c].pc = "updated"]
    /\ UNCHANGED <<now, sw, ended, aux>>

ReviewInsert(c) ==
    /\ rv[c].pc = "updated"
    /\ txn' = [txn EXCEPT !.log = @ (+) SetToBag({LogEntry(rv[c])})]
    /\ rv' = [rv EXCEPT ![c].pc = "inserted"]
    /\ UNCHANGED <<now, items, log, sw, ended, aux>>

\* conn.commit(); the process then prints and exits.
ReviewCommit(c) ==
    /\ rv[c].pc = "inserted"
    /\ items' = Committed(items, txn.rows)
    /\ log' = log (+) txn.log
    /\ txn' = NoTxn
    /\ rv' = [rv EXCEPT ![c] = IdleCaller]
    /\ ended' = Tally("ok")
    /\ UNCHANGED <<now, sw, aux>>

\* (mutant) the error path commits what the transaction holds.
ReviewFailCommits(c) ==
    /\ rv[c].pc \in {"read", "updated", "inserted"}
    /\ IF txn.owner = "review" /\ txn.caller = c
       THEN /\ items' = Committed(items, txn.rows)
            /\ log' = log (+) txn.log
            /\ txn' = NoTxn
       ELSE UNCHANGED <<items, log, txn>>
    /\ rv' = [rv EXCEPT ![c] = IdleCaller]
    /\ ended' = Tally(IF rv[c].pc = "read" THEN "error" ELSE "rolledback")
    /\ UNCHANGED <<now, sw, aux>>

\* A statement or the commit raises (store failure, lock timeout): the
\* exception leaves review_item and main, the connection is dropped and
\* SQLite rolls the open transaction back.
ReviewFail(c) ==
    /\ rv[c].pc \in {"read", "updated", "inserted"}
    /\ txn' = IF txn.owner = "review" /\ txn.caller = c THEN NoTxn ELSE txn
    /\ rv' = [rv EXCEPT ![c] = IdleCaller]
    /\ ended' = Tally(IF rv[c].pc = "read" THEN "error" ELSE "rolledback")
    /\ UNCHANGED <<now, items, log, sw, aux>>

\* ------------------------------------------------------------ process_decay
\* EXP(-((JULIANDAY('now') - JULIANDAY(COALESCE(last_reviewed_at, occurred_at)))
\*        * 24) / (memory_strength * 24)) at time t; memory_strength # 0.
SqlRetention(row, t) ==
    LET last == IF row.last_reviewed_at # NULL THEN row.last_reviewed_at
                ELSE row.created_at
    IN  Exp(RoundDiv((t - last) * 10 * 1000, row.memory_strength * 24))

\* The WHERE clause of the candidate SELECT and of the UPDATE's subquery.
\* A division by zero is NULL in SQL, and a NULL comparison selects nothing.
ForgetPredicate(row, t) ==
    /\ row.consolidation_state # "forgotten"
    /\ row.importance < 300
    /\ row.memory_strength # 0
    /\ SqlRetention(row, t) < RetentionUnit \div 10

\* The ids the query selects FROM events at time t.
Matching(rows, t) ==
    {k[2] : k \in {kk \in DOMAIN rows : kk[1] = "events" /\ ForgetPredicate(rows[kk], t)}}

\* (mutant) the sweep weakens the row instead of retiring it.
SweptRowDecays(row) == [row EXCEPT !.memory_strength = (@ * 7) \div 10]

\* (mutant) the sweep also clears the schedule of the row.
SweptRowUnscheduled(row) ==
    [row EXCEPT !.consolidation_state = "forgotten", !.next_review_at = NULL]

\* UPDATE events SET consolidation_state = 'forgotten'
SweptRow(row) == [row EXCEPT !.consolidation_state = "forgotten"]

\* (mutant) the UPDATE reuses the candidate list of the SELECT.
UpdateTargetsFromList(rows, t, candidates) == candidates

\* The ids the UPDATE statement changes when it runs at time t: its
\* subquery repeats the WHERE clause, the candidate list is not used.
UpdateTargets(rows, t, candidates) == Matching(rows, t)

\* (mutant) the mode test is inverted.
IsDryRunInverted(apply) == apply

\* main: process_decay(conn, dry_run=not args.apply); "if dry_run:".
IsDryRun(apply) == ~apply

\* A finished run: only its mode and outcome remain.
SweepEnded(n, apply, outcome) ==
    [IdleSweep EXCEPT !.n = n, !.apply = apply, !.outcome = outcome]

\* The candidate SELECT, the report, and in dry-run mode the return.
\* listed remembers each reported row's review_writes (history).
SweepSelect(apply) ==
    /\ sw.pc = "idle"
    /\ sw.n < MaxSweeps
    /\ LET candidates == Matching(items, now)
           run == [IdleSweep EXCEPT !.n = sw.n + 1, !.apply = apply,
                                    !.candidates = candidates, !.t = now]
       IN  IF candidates = {}
           THEN sw' = SweepEnded(sw.n + 1, apply, "empty")
           ELSE IF IsDryRun(apply)
           THEN sw' = SweepEnded(sw.n + 1, apply, "dryrun")
           ELSE sw' = [run EXCEPT !.pc = "listed",
                          !.listed = [id \in candidates |->
                                         items[<<"events", id>>].review_writes]]
    /\ UNCHANGED <<now, items, log, txn, rv, ended, aux>>

\* conn.execute(UPDATE ...): the subquery is evaluated now.
SweepUpdate ==
    /\ sw.pc = "listed"
    /\ txn.owner = "none"
    /\ LET targets == UpdateTargets(items, now, sw.candidates)
       IN  /\ txn' = [owner |-> "sweep", caller |-> 0,
                      rows |-> [k \in {<<"events", id>> : id \in targets} |->
                                   SweptRow(items[k])],
                      log |-> EmptyBag]
           /\ sw' = [sw EXCEPT !.pc = "updated", !.mutated = targets, !.t = now]
    /\ UNCHANGED <<now, items, log, rv, ended, aux>>

\* conn.commit(), then "Marked len(candidates) items as forgotten".
SweepCommit ==
    /\ sw.pc = "updated"
    /\ items' = Committed(items, txn.rows)
    /\ log' = log (+) txn.log
    /\ txn' = NoTxn
    /\ sw' = SweepEnded(sw.n, sw.apply, "applied")
    /\ UNCHANGED <<now, rv, ended, aux>>

\* The UPDATE or the commit raises: the transaction is rolled back.
SweepFail ==
    /\ sw.pc \in {"listed", "updated"}
    /\ txn' = IF txn.owner = "sweep" THEN NoTxn ELSE txn
    /\ sw' = SweepEnded(sw.n, sw.apply, "error")
    /\ UNCHANGED <<now, items, log, rv, ended, aux>>

\* ------------------------------------------------------------ clock
Advance ==
    /\ now < NowInit + MaxTicks * Tick
    /\ now' = now + Tick
    /\ UNCHANGED <<items, log, txn, rv, sw, ended, aux>>

Next ==
    \/ \E c \in Callers, st \in SourceTables, id \in SourceIds, q \in QualityArgs :
          ReviewRead(c, st, id, q)
    \/ \E c \in Callers : ReviewUpdate(c)
    \/ \E c \in Callers : ReviewInsert(c)
    \/ \E c \in Callers : ReviewCommit(c)
    \/ \E c \in Callers : ReviewFail(c)
    \/ \E apply \in BOOLEAN : SweepSelect(apply)
    \/ SweepUpdate
    \/ SweepCommit
    \/ SweepFail
    \/ Advance

Spec == Init /\ [][Next]_vars

\* ------------------------------------------------------------ reviews of any table
\* The reviews alone, with any table name after --review.
ReviewNext ==
    \/ \E c \in Callers, st \in TableNames, id \in SourceIds, q \in QualityArgs :
          ReviewRead(c, st, id, q)
    \/ \E c \in Callers : ReviewUpdate(c)
    \/ \E c \in Callers : ReviewInsert(c)
    \/ \E c \in Callers : ReviewCommit(c)
    \/ \E c \in Callers : ReviewFail(c)

ReviewSpec == Init /\ [][ReviewNext]_vars

\* ------------------------------------------------------------ get_next_interval
\* A direct call of get_next_interval(repetition_count, quality) on a
\* store nobody else uses: the arguments are chosen at the start.
IntervalInit ==
    /\ StoreInit
    /\ ret = NoRetention
    /\ cli = NoRun
    /\ queue = InitQueue
    /\ pq = IdleQueueRun
    /\ facts = InitFacts
    /\ co = NoObservation
    /\ call \in [ done : {FALSE},
                   repetition_count : (0 - MaxNegative)..MaxRepetition,
                   quality : -1..6, raised : {FALSE}, result : {0} ]

IntervalCall ==
    /\ ~call.done
    /\ call' = IF get_next_interval_raises(call.repetition_count, call.quality)
               THEN [call EXCEPT !.done = TRUE, !.raised = TRUE]
               ELSE [call EXCEPT !.done = TRUE,
                        !.result = get_next_interval(call.repetition_count,
                                                     call.quality)]
    /\ UNCHANGED <<store, ret, cli, queue, pq, facts, co>>

IntervalSpec == IntervalInit /\ [][IntervalCall]_vars

\* ------------------------------------------------------------ calculate_retention
\* The arguments of a direct call: hours in steps of six up to four days,
\* two spans of several years, and four strengths of the valid range.
HourStep == 6 * Hour
FarHours == {36000 * Hour, 40000 * Hour}
HoursArgs == {k * HourStep : k \in 0..MaxHourSteps} \cup FarHours
StrengthArgs == {StrengthUnit \div 2, StrengthUnit, (3 * StrengthUnit) \div 2, 2 * StrengthUnit}

RetentionInit ==
    /\ StoreInit
    /\ call = NoCall
    /\ ret \in [ done : {FALSE}, hours_since_review : HoursArgs,
                  memory_strength : StrengthArgs, result : {0} ]
    /\ cli = NoRun
    /\ queue = InitQueue
    /\ pq = IdleQueueRun
    /\ facts = InitFacts
    /\ co = NoObservation

RetentionCall ==
    /\ ~ret.done
    /\ ret' = [ret EXCEPT !.done = TRUE,
                          !.result = calculate_retention(ret.hours_since_review,
                                                         ret.memory_strength)]
    /\ UNCHANGED <<store, call, cli, queue, pq, facts, co>>

RetentionSpec == RetentionInit /\ [][RetentionCall]_vars

\* ------------------------------------------------------------ main
\* The command lines: the action flag that main acts on (help: none
\* given; apply: --decay --apply), the text after --review, the integer
\* after --quality, and the file HEXMEM_DB names: a database with the
\* schema, no file yet (sqlite3.connect creates an empty one), or a path
\* whose directory does not exist (sqlite3.connect raises).
Commands == {"due", "review", "stats", "decay", "apply", "help"}
ReviewForms == {"table:id", "table", "a:b:c", "table:abc"}
DbStates == {"present", "missing", "unreachable"}

\* len(args.review.split(':'))
PartsOf(review) ==
    CASE review = "table" -> 1
      [] review = "a:b:c" -> 3
      [] OTHER -> 2

\* The exit status of the process: 2 from parser.error, 1 from an
\* uncaught exception, 0 when main returns.
ExitStatus(command, review, quality, db) ==
    IF ~QualityAccepted(quality) THEN 2
    ELSE IF db = "unreachable" THEN 1
    ELSE IF command = "review"
    THEN IF PartsOf(review) # 2 THEN 0
         ELSE IF review = "table:abc" THEN 1
         ELSE IF db = "missing" THEN 1
         ELSE 0
    ELSE IF command = "help" THEN 0
    ELSE IF db = "missing" THEN 1
    ELSE 0

MainInit ==
    /\ StoreInit
    /\ call = NoCall
    /\ ret = NoRetention
    /\ cli \in [ done : {FALSE}, command : Commands, review : ReviewForms,
                  quality : QualityArgs, db : DbStates, status : {0} ]
    /\ queue = InitQueue
    /\ pq = IdleQueueRun
    /\ facts = InitFacts
    /\ co = NoObservation

MainRun ==
    /\ ~cli.done
    /\ cli' = [cli EXCEPT !.done = TRUE,
                          !.status = ExitStatus(cli.command, cli.review,
                                                cli.quality, cli.db)]
    /\ UNCHANGED <<store, call, ret, queue, pq, facts, co>>

MainSpec == MainInit /\ [][MainRun]_vars

\* ------------------------------------------------------------ process_queue
\* "if processed % 10 == 0": the progress line and the commit in the loop.
CommitEvery == 10

\* The limits a caller passes.
Limits == {0, 1, MaxQueue}

RECURSIVE PendingIds(_, _, _)
\* SELECT id ... WHERE status = 'pending' ORDER BY created_at LIMIT limit,
\* from row id on.
PendingIds(rows, id, limit) ==
    IF limit <= 0 \/ id \notin DOMAIN rows THEN <<>>
    ELSE IF rows[id] = "pending"
    THEN <<id>> \o PendingIds(rows, id + 1, limit - 1)
    ELSE PendingIds(rows, id + 1, limit)

\* A run that has ended: only its way of ending and its result remain.
QueueRunEnded(pc, pending, result) ==
    [ pc |-> pc, limit |-> 0, pending |-> pending, i |-> 0, processed |-> 0,
      saved |-> <<>>, result |-> result ]

\* load_sqlite_vec, the SELECT and the two early returns.  saved is the
\* table as last committed.
QueueSelect(limit, loaded) ==
    /\ pq.pc = "idle"
    /\ LET pending == PendingIds(queue, 1, limit)
       IN  IF ~loaded \/ pending = <<>>
           THEN pq' = QueueRunEnded("returned", <<>>, 0)
           ELSE pq' = [ pc |-> "loop", limit |-> limit, pending |-> pending,
                        i |-> 0, processed |-> 0, saved |-> queue,
                        result |-> 0 ]
    /\ UNCHANGED <<store, call, ret, cli, queue, facts, co>>

\* One turn of the loop.  "done": the embedding, the INSERT, the UPDATE
\* and, on every tenth, the progress line and the commit succeed.
\* "failed": something raises before the UPDATE (an unknown source table,
\* the model, the INSERT) and the handler marks the row.  "late": the
\* progress line or the commit of a tenth row raises, after the UPDATE and
\* the count; the handler marks the row all the same.
QueueRow(outcome) ==
    /\ pq.pc = "loop"
    /\ pq.i < Len(pq.pending)
    /\ LET id == pq.pending[pq.i + 1]
           tenth == (pq.processed + 1) % CommitEvery = 0
       IN  CASE outcome = "done" ->
                  /\ queue' = [queue EXCEPT ![id] = "done"]
                  /\ pq' = [pq EXCEPT !.i = @ + 1, !.processed = @ + 1,
                                      !.saved = IF tenth THEN queue' ELSE @]
             [] outcome = "failed" ->
                  /\ queue' = [queue EXCEPT ![id] = "failed"]
                  /\ pq' = [pq EXCEPT !.i = @ + 1]
             [] outcome = "late" ->
                  /\ tenth
                  /\ queue' = [queue EXCEPT ![id] = "failed"]
                  /\ pq' = [pq EXCEPT !.i = @ + 1, !.processed = @ + 1]
    /\ UNCHANGED <<store, call, ret, cli, facts, co>>

\* conn.commit(); return processed.
QueueReturn ==
    /\ pq.pc = "loop"
    /\ pq.i = Len(pq.pending)
    /\ pq' = QueueRunEnded("returned", pq.pending, pq.processed)
    /\ UNCHANGED <<store, call, ret, cli, queue, facts, co>>

\* The handler's own UPDATE or the last commit raises: process_queue does
\* not return, and what was not committed is rolled back.
QueueRaise ==
    /\ pq.pc = "loop"
    /\ pq.i > 0
    /\ queue' = pq.saved
    /\ pq' = QueueRunEnded("raised", pq.pending, 0)
    /\ UNCHANGED <<store, call, ret, cli, facts, co>>

QueueNext ==
    \/ \E limit \in Limits, loaded \in BOOLEAN : QueueSelect(limit, loaded)
    \/ \E outcome \in {"done", "failed", "late"} : QueueRow(outcome)
    \/ QueueReturn
    \/ QueueRaise

QueueSpec == Init /\ [][QueueNext]_vars

\* ------------------------------------------------------------ commit_observation
\* A key stands for a (subject, predicate) pair; the actions a manifest
\* entry may carry ('new' is the default).
FactKeys == {"k1", "k2"}
Actions == {"new", "supersede", "update"}

\* check_fact_conflict: the ids of the rows its SELECT matches; fetchone
\* returns one of them, the query has no ORDER BY.
check_fact_conflict(rows, key) ==
    {id \in DOMAIN rows :
        /\ rows[id].key = key
        /\ rows[id].valid_until = NULL
        /\ rows[id].status = "active"}

\* INSERT INTO facts (...): valid_until and superseded_by are NULL and
\* status takes its default; lastrowid is the new length.
InsertFact(rows, key) ==
    Append(rows, [ key |-> key, valid_until |-> NULL, superseded_by |-> NULL,
                   status |-> "active" ])

\* (mutant) the arguments are taken in the other order.
supersede_fact_swapped(rows, old_id, new_id, t) ==
    [rows EXCEPT ![new_id].valid_until = t, ![new_id].superseded_by = old_id]

\* supersede_fact: UPDATE facts SET valid_until = now, superseded_by =
\* new_id WHERE id = old_id.
supersede_fact(rows, old_id, new_id, t) ==
    [rows EXCEPT ![old_id].valid_until = t, ![old_id].superseded_by = new_id]

\* commit_observation(conn, obs, dry_run), the whole call; conflict is the
\* row fetchone returned, NULL for none.
CommitObservation(key, action, dry_run, conflict) ==
    /\ Len(facts) < MaxFacts
    /\ conflict = NULL <=> check_fact_conflict(facts, key) = {}
    /\ conflict # NULL => conflict \in check_fact_conflict(facts, key)
    /\ IF dry_run
       THEN /\ co' = [ action |-> action, dry_run |-> TRUE, key |-> key,
                       conflict |-> NULL, new_id |-> NULL ]
            /\ UNCHANGED facts
       ELSE LET new_id == Len(facts) + 1
                inserted == InsertFact(facts, key)
            IN  /\ facts' = IF conflict # NULL /\ action = "supersede"
                            THEN supersede_fact(inserted, conflict, new_id, now)
                            ELSE inserted
                /\ co' = [ action |-> action, dry_run |-> FALSE, key |-> key,
                           conflict |-> conflict, new_id |-> new_id ]
    /\ UNCHANGED <<store, call, ret, cli, queue, pq>>

FactsNext ==
    \E key \in FactKeys, action \in Actions, dry_run \in BOOLEAN,
       conflict \in {NULL} \cup (1..MaxFacts) :
        CommitObservation(key, action, dry_run, conflict)

FactsSpec == Init /\ [][FactsNext]_vars

\* ------------------------------------------------------------ derived
RECURSIVE SumWrites(_, _)
SumWrites(rows, keys) ==
    IF keys = {} THEN 0
    ELSE LET k == CHOOSE x \in keys : TRUE
         IN  rows[k].review_writes + SumWrites(rows, keys \ {k})

\* The committed review UPDATEs of all rows.
ReviewWrites == SumWrites(items, DOMAIN items)

\* The committed rows after a whole apply-mode process_decay run at time t.
Swept(rows, t) ==
    LET candidates == Matching(rows, t)
        targets == IF candidates = {} THEN {}
                   ELSE UpdateTargets(rows, t, candidates)
    IN  [k \in DOMAIN rows |->
            IF k[1] = "events" /\ k[2] \in targets THEN SweptRow(rows[k])
            ELSE rows[k]]

\* ------------------------------------------------------------ properties

\* C1: memory_strength of every item stays within [0.5, 10.0] under any
\* sequence of reviews.  (Fails on the code: an item dated ahead of the
\* clock has retention above 1, and the successful branch has no lower
\* clamp.)
C1_StrengthInRange ==
    \A k \in DOMAIN items :
        /\ items[k].memory_strength >= StrengthUnit \div 2
        /\ items[k].memory_strength <= 10 * StrengthUnit

\* C2: a forgotten item never becomes active again, and only the commit
\* of an apply-mode sweep changes consolidation_state.
C2_ForgottenIsFinal ==
    [][\A k \in DOMAIN items :
          /\ items[k].consolidation_state = "forgotten"
                => items'[k].consolidation_state = "forgotten"
          /\ items'[k].consolidation_state # items[k].consolidation_state
                => /\ sw.pc = "updated"
                   /\ sw.apply
                   /\ sw'.outcome = "applied"]_vars

\* A review has committed on the forgotten events 1 after the sweep
\* (reviewed at the initial time, it would not have been a candidate).
C2_Witness ==
    /\ now = NowInit
    /\ items[<<"events", 1>>].consolidation_state = "forgotten"
    /\ items[<<"events", 1>>].last_reviewed_at = NowInit

\* C3: the number of review_log rows always equals the number of
\* committed item updates made by reviews.
C3_LogPairsWithUpdate == BagCardinality(log) = ReviewWrites

C3_Witness ==
    /\ BagCardinality(log) >= 2
    /\ \E k \in DOMAIN items : items[k].review_writes >= 2

\* C4: a review that fails at any step persists neither its item update
\* nor its log row: what is committed stems from the reviews that
\* committed, one item update and one log row each.
C4_FailurePersistsNothing ==
    /\ ReviewWrites = ended["ok"]
    /\ BagCardinality(log) = ended["ok"]

\* A review was rolled back after its UPDATE, another one committed.
C4_Witness ==
    /\ ended["rolledback"] >= 1
    /\ ended["ok"] >= 1

C6_NoLostUpdate ==
    \A c \in Callers :
        rv[c].pc \in {"updated", "inserted"} =>
            LET row == items[ReviewKey(rv[c])]
            IN  /\ rv[c].new_rep_count
                      = NewRepCount(row.repetition_count, rv[c].quality)
                /\ rv[c].new_strength
                      = NewStrength(row.memory_strength, rv[c].quality,
                            calculate_retention(rv[c].now - ReferenceTime(row),
                                                row.memory_strength))

\* C7: the commit of an apply-mode sweep leaves every item of every
\* collection that satisfied the predicate at the time of the UPDATE
\* forgotten, and every other item unchanged.  (Fails on the code: the
\* queries read FROM events only.)
C7_SweepForgetsEveryMatch ==
    [][(sw.pc = "updated" /\ sw'.outcome = "applied") =>
          \A k \in DOMAIN items :
              IF ForgetPredicate(items[k], sw.t)
              THEN items'[k].consolidation_state = "forgotten"
              ELSE items'[k] = items[k]]_vars

\* C8: the candidates an apply-mode sweep reports are exactly the items
\* its UPDATE changes.  (Fails on the code: the UPDATE evaluates the
\* predicate again, at its own time, after concurrent reviews.)
C8_ReportedEqualsMutated ==
    sw.pc = "updated" => sw.candidates = sw.mutated

\* C9: no step of a dry-run sweep changes a row, the log or the
\* transaction state.
C9_DryRunChangesNothing ==
    [][(sw' # sw /\ ~sw'.apply) =>
          (items' = items /\ log' = log /\ txn' = txn)]_vars

\* A dry run has reported candidates.
C9_Witness == sw.outcome = "dryrun" /\ ~sw.apply

\* C10: an apply-mode sweep run again at the same time, with no review
\* in between, changes nothing.
C10_SweepIdempotent ==
    Swept(Swept(items, now), now) = Swept(items, now)

\* An apply-mode sweep has forgotten an item and a rerun finds nothing.
C10_Witness ==
    /\ sw.outcome = "applied"
    /\ \E k \in DOMAIN items : items[k].consolidation_state = "forgotten"
    /\ Swept(items, now) = items

\* C11: a committed review of quality q on an item whose repetition_count
\* is r persists 0 when q < 3 and r + 1 when q >= 3, so that the count is
\* the number of successful reviews since the last failed one.  (Fails on
\* the code: r is the count read before the transaction, which another
\* review may have replaced by the time of the write.)
C11_RepetitionCountRule ==
    [][ended'["ok"] # ended["ok"] =>
          LET r == rv[txn.caller]
          IN  items'[ReviewKey(r)].repetition_count
                 = NewRepCount(items[ReviewKey(r)].repetition_count, r.quality)]_vars

\* C12: a review of an id the named collection does not hold reports
\* not-found and writes nothing: rows, log and transaction are unchanged.
C12_NotFoundWritesNothing ==
    [][ended'["notfound"] # ended["notfound"] =>
          /\ items' = items
          /\ log' = log
          /\ BagCardinality(log') = BagCardinality(log)
          /\ txn' = txn
          /\ rv' = rv]_vars

\* A review ended not-found after another one had committed.
C12_Witness ==
    /\ ended["notfound"] >= 1
    /\ BagCardinality(log) >= 1

\* C13: a review naming a source_table other than events and lessons
\* ends not-found, changes no row and appends no log row: review_log
\* never holds a row of such a review.  (Fails on the code: every other
\* name falls into the lessons branch, whose row is updated and logged
\* under the name given.)
C13_UnknownTableNotFound ==
    \A e \in BagToSet(log) : e.source_table \in ItemTables

\* C14: a review with a quality outside 0..5 is rejected before any write:
\* the rejection changes no row, log row or transaction, and no review
\* under way and no log row carries such a quality.
C14_QualityOutOfRangeRejected ==
    [][/\ ended'["invalid"] # ended["invalid"] =>
             /\ items' = items
             /\ log' = log
             /\ txn' = txn
             /\ rv' = rv
       /\ \A c \in Callers :
             rv'[c].pc # "idle" => rv'[c].quality \in 0..5
       /\ \A e \in BagToSet(log') \cup BagToSet(txn'.log) :
             e.quality \in 0..5]_vars

\* A review was rejected for its quality after another one had committed.
C14_Witness ==
    /\ ended["invalid"] >= 1
    /\ BagCardinality(log) >= 1

\* C15: a review of an item whose reference time lies in the future
\* fails and writes nothing: no review issues its UPDATE with a negative
\* hours_since.  (Fails on the code: the difference is used as it is.)
C15_FutureReferenceFails ==
    \A c \in Callers :
        rv[c].pc \in {"updated", "inserted"} => rv[c].hours_since >= 0

\* C16: every row of review_log has quality in 0..5, retention_before in
\* [0, 1] and time_since_last_review_hours >= 0.  (Fails on the code for
\* an item dated ahead of the clock.)
C16_LogEntryRanges ==
    \A e \in BagToSet(log) :
        /\ e.quality \in 0..5
        /\ e.retention_before >= 0
        /\ e.retention_before <= RetentionUnit
        /\ e.time_since_last_review_hours >= 0

\* C17: a committed review leaves the item with last_reviewed_at at the
\* review time, next_review_at at the review time plus the interval of
\* the persisted repetition_count and the quality, and retention_estimate
\* 1.0; so next_review_at is later than last_reviewed_at and
\* retention_estimate is within [0, 1].
C17_ReviewSchedules ==
    [][ended'["ok"] # ended["ok"] =>
          LET r == rv[txn.caller]
              row == items'[ReviewKey(r)]
          IN  /\ row.last_reviewed_at = r.now
              /\ row.next_review_at
                    = r.now + get_next_interval(row.repetition_count, r.quality)
              /\ row.retention_estimate = RetentionUnit
              /\ row.next_review_at > row.last_reviewed_at
              /\ row.retention_estimate >= 0
              /\ row.retention_estimate <= RetentionUnit]_vars

\* Two successful reviews in a row have put an item on the 72-hour rung.
C17_Witness ==
    \E k \in DOMAIN items :
        /\ items[k].repetition_count = 2
        /\ items[k].next_review_at = items[k].last_reviewed_at + 72 * Hour

\* C18: a committed review changes only memory_strength, repetition_count,
\* last_reviewed_at, next_review_at and retention_estimate of the reviewed
\* row; a committed apply-mode sweep changes only consolidation_state and
\* not the log; no other step changes a row, and no step deletes one.
C18_Frame ==
    [][/\ DOMAIN items' = DOMAIN items
       /\ IF ended'["ok"] # ended["ok"]
          THEN \A k \in DOMAIN items :
                  IF k = ReviewKey(rv[txn.caller])
                  THEN [items'[k] EXCEPT
                           !.memory_strength = items[k].memory_strength,
                           !.repetition_count = items[k].repetition_count,
                           !.last_reviewed_at = items[k].last_reviewed_at,
                           !.next_review_at = items[k].next_review_at,
                           !.retention_estimate = items[k].retention_estimate,
                           !.review_writes = items[k].review_writes]
                          = items[k]
                  ELSE items'[k] = items[k]
          ELSE IF sw.pc = "updated" /\ sw'.outcome = "applied"
          THEN /\ \A k \in DOMAIN items :
                     [items'[k] EXCEPT
                         !.consolidation_state = items[k].consolidation_state]
                        = items[k]
               /\ log' = log
          ELSE items' = items]_vars

\* A review has committed and an apply-mode sweep has forgotten a row.
C18_Witness ==
    /\ ended["ok"] >= 1
    /\ sw.outcome = "applied"
    /\ \E k \in DOMAIN items : items[k].consolidation_state = "forgotten"
    /\ \E k \in DOMAIN items : items[k].review_writes >= 1

\* C19: for quality 0, 1 or 2 and any repetition_count >= 0 the next
\* interval is the first rung, 0.33 hours, whatever the count.
C19_FailureResetsInterval ==
    (call.done /\ call.quality \in 0..2 /\ call.repetition_count >= 0) =>
        /\ call.result = INTERVALS[1]
        /\ call.result * 100 = 33 * Hour

\* The function was called for a failed review on the fourth repetition.
C19_Witness ==
    /\ call.done
    /\ call.quality = 2
    /\ call.repetition_count = 3
    /\ call.result * 100 = 33 * Hour

\* C20: for quality 3, 4 or 5 and any repetition_count r >= 0 the next
\* interval is the rung at index min(r + 1, 9) times 0.8, 1.0 or 1.3;
\* (0, 4) gives 1 hour, (5, 5) gives 936 hours, and from r = 8 on the
\* rung is the last one, 8760 hours.
C20_SuccessAdvancesRung ==
    (call.done /\ call.quality \in 3..5 /\ call.repetition_count >= 0) =>
        LET r == call.repetition_count
            rung == INTERVALS[(IF r + 1 < 9 THEN r + 1 ELSE 9) + 1]
            tenths == CASE call.quality = 3 -> 8
                        [] call.quality = 4 -> 10
                        [] call.quality = 5 -> 13
        IN  /\ call.result * 10 = rung * tenths
            /\ (r = 0 /\ call.quality = 4) => call.result = 1 * Hour
            /\ (r = 5 /\ call.quality = 5) => call.result = 936 * Hour
            /\ r >= 8 => rung = 8760 * Hour

\* The function was called past the end of the ladder for a hard recall.
C20_Witness ==
    /\ call.done
    /\ call.quality = 3
    /\ call.repetition_count = 9
    /\ call.result = 7008 * Hour

\* C21: get_next_interval rejects every call whose quality is outside 0..5
\* and every call whose repetition_count is negative: it returns no
\* interval for them.  (Fails on the code: the function validates
\* nothing; only an index below -10 raises.)
C21_RejectsBadArguments ==
    (call.done /\ (call.quality \notin 0..5 \/ call.repetition_count < 0)) =>
        call.raised

C24_ExitStatus ==
    cli.done =>
        (cli.status # 0 <=>
            \/ cli.command = "review" /\ cli.review # "table:id"
            \/ cli.quality \notin 0..5
            \/ cli.db # "present")

\* C25: a successful review (quality >= 3) of an item whose
\* repetition_count is r >= 0 schedules from the rung at index
\* min(r + 2, 9), the count being advanced before the lookup: the
\* interval is at least 19.2 hours, and no review ever schedules from
\* the 1-hour rung; the bound holds for the count read whichever of
\* the qualities 3..5 is given.
C25_RungFromAdvancedCount ==
    \A c \in Callers :
        (rv[c].pc # "idle" /\ rv[c].rep_count >= 0) =>
            /\ rv[c].quality >= 3 =>
                  LET r == rv[c].rep_count
                      rung == INTERVALS[(IF r + 2 < 9 THEN r + 2 ELSE 9) + 1]
                      tenths == CASE rv[c].quality = 3 -> 8
                                  [] rv[c].quality = 4 -> 10
                                  [] rv[c].quality = 5 -> 13
                  IN  /\ rv[c].next_interval_hours * 10 = rung * tenths
                      /\ rv[c].next_interval_hours * 10 >= 192 * Hour
            /\ rv[c].next_interval_hours * 10
                  \notin {INTERVALS[2] * 8, INTERVALS[2] * 10, INTERVALS[2] * 13}
            /\ \A q \in 3..5 :
                  get_next_interval(NewRepCount(rv[c].rep_count, q), q) * 10
                      >= 192 * Hour

\* The first successful review of an item is writing an interval of one
\* day.
C25_Witness ==
    \E c \in Callers :
        /\ rv[c].pc = "inserted"
        /\ rv[c].quality = 4
        /\ rv[c].rep_count = 0
        /\ rv[c].next_interval_hours = 24 * Hour

\* C26: a review does not look at consolidation_state: the commit of a
\* review of a row that is forgotten by then (also by a sweep that
\* committed after the review had read the row) writes the new strength,
\* repetition_count and schedule, appends the log row and leaves the row
\* forgotten.
C26_ReviewIgnoresForgotten ==
    [][(/\ ended'["ok"] # ended["ok"]
        /\ items[ReviewKey(rv[txn.caller])].consolidation_state = "forgotten") =>
          LET r == rv[txn.caller]
              old == items[ReviewKey(r)]
              row == items'[ReviewKey(r)]
          IN  /\ row.consolidation_state = "forgotten"
              /\ row.memory_strength = r.new_strength
              /\ row.repetition_count = r.new_rep_count
              /\ row.last_reviewed_at = r.now
              /\ row.next_review_at = r.now + r.next_interval_hours
              /\ row.review_writes = old.review_writes + 1
              /\ BagCardinality(log') = BagCardinality(log) + 1
              /\ BagIn(LogEntry(r), log')]_vars

\* A review has committed on events 1 after the sweep had forgotten it
\* (reviewed first, the row would not have matched at that time).
C26_Witness ==
    /\ now = NowInit
    /\ sw.outcome = "applied"
    /\ items[<<"events", 1>>].consolidation_state = "forgotten"
    /\ items[<<"events", 1>>].review_writes = 1
    /\ items[<<"events", 1>>].memory_strength # StrengthUnit
    /\ BagCardinality(log) >= 1

\* C22: the strength a review writes is max(0.5, strength * 0.7) for
\* quality < 3 and min(10.0, strength * (1.1 + (quality - 3) * 0.1)
\* * (1 + (1 - retention) * 0.5)) for quality >= 3; so with the retention
\* in (0, 1] a failed review never raises the strength and a successful
\* one never lowers it, and a lower retention gives a strength at least
\* as large.  (Fails on the code: a strength below 0.5, left by the review
\* of an item dated ahead of the clock, is raised to 0.5 by a failed
\* review.)
C22_StrengthUpdate ==
    \A c \in Callers :
        (/\ rv[c].pc \in {"updated", "inserted"}
         /\ rv[c].current_retention > 0
         /\ rv[c].current_retention <= RetentionUnit) =>
            /\ rv[c].new_strength
                  = NewStrength(rv[c].strength, rv[c].quality,
                                rv[c].current_retention)
            /\ rv[c].quality < 3 => rv[c].new_strength <= rv[c].strength
            /\ rv[c].quality >= 3 => rv[c].new_strength >= rv[c].strength
            /\ \A lower \in {RetentionUnit \div 10, RetentionUnit \div 2} :
                  (rv[c].quality >= 3 /\ lower <= rv[c].current_retention) =>
                      NewStrength(rv[c].strength, rv[c].quality, lower)
                          >= rv[c].new_strength

\* C27: when process_queue has returned, every row it selected is done or
\* failed, the rows that were done or failed before are as they were, no
\* row has gone back to pending, and the count returned is the number of
\* selected rows that are done.  (Fails on the code: a tenth row whose
\* commit raises is counted and then marked failed.)
C27_QueueProcessed ==
    pq.pc = "returned" =>
        LET selected == {pq.pending[k] : k \in 1..Len(pq.pending)}
        IN  /\ \A id \in selected : queue[id] \in {"done", "failed"}
            /\ \A id \in QueueIds :
                  /\ InitQueue[id] # "pending" => queue[id] = InitQueue[id]
                  /\ queue[id] = "pending" => InitQueue[id] = "pending"
            /\ pq.result = Cardinality({id \in selected : queue[id] = "done"})

\* C28: commit_observation with action supersede, when an active fact of
\* the same subject and predicate exists before the insert, leaves that
\* fact (the one the conflict check returned) with valid_until set and
\* superseded_by the id of the new fact, and the new fact is not
\* superseded by itself; with any other action, or in dry-run mode, no
\* existing fact is changed.
C28_SupersedeOldFact ==
    [][(co' # co \/ facts' # facts) =>
          IF co'.dry_run
          THEN facts' = facts
          ELSE /\ Len(facts') = Len(facts) + 1
               /\ co'.new_id = Len(facts')
               /\ facts'[co'.new_id].superseded_by = NULL
               /\ facts'[co'.new_id].valid_until = NULL
               /\ IF co'.action = "supersede"
                     /\ check_fact_conflict(facts, co'.key) # {}
                  THEN /\ co'.conflict \in check_fact_conflict(facts, co'.key)
                       /\ co'.conflict # co'.new_id
                       /\ facts'[co'.conflict].valid_until # NULL
                       /\ facts'[co'.conflict].superseded_by = co'.new_id
                       /\ \A id \in DOMAIN facts :
                             id # co'.conflict => facts'[id] = facts[id]
                  ELSE \A id \in DOMAIN facts : facts'[id] = facts[id]]_vars

\* A superseding observation has replaced an active fact while another
\* action had left an active fact of the same key beside it.
C28_Witness ==
    /\ co.action = "supersede"
    /\ ~co.dry_run
    /\ co.conflict # NULL
    /\ facts[co.conflict].superseded_by = co.new_id
    /\ facts[co.conflict].valid_until # NULL
    /\ facts[co.new_id].superseded_by = NULL
    /\ \E id \in DOMAIN facts :
          /\ id \notin {co.conflict, co.new_id}
          /\ facts[id].key = co.key
          /\ facts[id].valid_until = NULL
          /\ facts[id].status = "active"

====
